---- MODULE Spec2Model ----
(***************************************************************************)
(* Model of the calendar-api server (src/google-calendar.js): the German   *)
(* quick-add parser parseQuickText, with its regular expressions modelled  *)
(* character by character and its Date arithmetic modelled on epoch        *)
(* minutes, and the three event-creating request handlers that mirror      *)
(* events into db.json.                                                    *)
(*                                                                         *)
(* A text is a sequence of one-character strings.  The server's local time *)
(* zone is taken to be one without daylight-saving shifts, so a Date is    *)
(* its number of minutes since 1970-01-01T00:00 local time (the parser     *)
(* zeroes seconds and milliseconds before it uses any Date).               *)
(***************************************************************************)
EXTENDS Integers, Sequences, FiniteSets, TLC

VARIABLES
    text,            \* parser: the input of parseQuickText
    defaultMinutes,  \* parser: its second argument
    clock,           \* the process-wide clock read by new Date(), in minutes
    now,             \* parser: the value new Date() returned in the last call (0 before)
    result,          \* parser: the value returned by the last call, or None
    ticks,           \* number of clock advances so far
    db,              \* server: contents of db.json
    pc,              \* server: position of each request's handler
    req,             \* server: each request's route and body
    resp             \* server: each request's response, or None

vars == <<text, defaultMinutes, clock, now, result, ticks, db, pc, req, resp>>
parserVars == <<text, defaultMinutes, now, result>>
serverVars == <<db, pc, req, resp>>

\* No value yet (no call made, no response sent).
None == [none |-> TRUE]

(***************************************************************************)
(* Characters                                                              *)
(***************************************************************************)
\* The letter u with diaeresis, U+00FC.
uUmlaut == "u-umlaut"

Digits == {"0", "1", "2", "3", "4", "5", "6", "7", "8", "9"}

LowerAlpha == <<"a","b","c","d","e","f","g","h","i","j","k","l","m",
                "n","o","p","q","r","s","t","u","v","w","x","y","z">>
UpperAlpha == <<"A","B","C","D","E","F","G","H","I","J","K","L","M",
                "N","O","P","Q","R","S","T","U","V","W","X","Y","Z">>

\* \w of a RegExp without the u flag: ASCII letters, digits and underscore.
\* The umlaut is not among them.
WordChars == {LowerAlpha[i] : i \in 1..26} \cup {UpperAlpha[i] : i \in 1..26}
             \cup Digits \cup {"_"}

IsDigit(c) == c \in Digits
IsWord(c) == c \in WordChars
IsSpace(c) == c = " "

\* String.prototype.toLowerCase and the i flag, one character at a time.
LowerOf == [c \in {UpperAlpha[i] : i \in 1..26} |->
               LowerAlpha[CHOOSE i \in 1..26 : UpperAlpha[i] = c]]
Lower(c) == IF c \in DOMAIN LowerOf THEN LowerOf[c] ELSE c

toLowerCase(s) == [i \in 1..Len(s) |-> Lower(s[i])]

DigitVal(c) ==
    CASE c = "0" -> 0 [] c = "1" -> 1 [] c = "2" -> 2 [] c = "3" -> 3
      [] c = "4" -> 4 [] c = "5" -> 5 [] c = "6" -> 6 [] c = "7" -> 7
      [] c = "8" -> 8 [] c = "9" -> 9

\* parseInt(ds, 10) of a non-empty sequence of decimal digits.
RECURSIVE parseInt(_)
parseInt(ds) ==
    IF ds = <<>> THEN 0
    ELSE 10 * parseInt(SubSeq(ds, 1, Len(ds) - 1)) + DigitVal(ds[Len(ds)])

MinOf(S) == CHOOSE x \in S : \A y \in S : x <= y
MaxOf(S) == CHOOSE x \in S : \A y \in S : x >= y

\* String.prototype.trim, for the one whitespace character of the model.
RECURSIVE trimStart(_)
trimStart(s) ==
    IF s # <<>> /\ IsSpace(s[1]) THEN trimStart(Tail(s)) ELSE s

RECURSIVE trimEnd(_)
trimEnd(s) ==
    IF s # <<>> /\ IsSpace(s[Len(s)])
    THEN trimEnd(SubSeq(s, 1, Len(s) - 1)) ELSE s

\* The input used as it comes, untrimmed.
trimForgotten(s) == s

trim(s) == trimEnd(trimStart(s))

(***************************************************************************)
(* Regular expressions.  A match attempt at position p (1-based) yields a  *)
(* record with the length of the match and its capture groups, or NoMatch. *)
(* Greedy quantifiers with backtracking are modelled by taking the longest *)
(* repetition for which the rest of the pattern still matches.             *)
(***************************************************************************)
NoMatch == [len |-> -1]

\* \b between s[i] and s[i+1], for i in 0..Len(s).
WordBoundary(s, i) ==
    (i >= 1 /\ IsWord(s[i])) # (i + 1 <= Len(s) /\ IsWord(s[i + 1]))

\* k decimal digits at p.
DigitsAt(s, p, k) ==
    /\ p + k - 1 <= Len(s)
    /\ \A i \in p..(p + k - 1) : IsDigit(s[i])

\* The literal lit at p, compared case-insensitively (lit is lower case).
LitAt(s, p, lit) ==
    /\ p + Len(lit) - 1 <= Len(s)
    /\ \A i \in 1..Len(lit) : Lower(s[p + i - 1]) = lit[i]

\* Number of whitespace characters from p on.
RECURSIVE SpacesAt(_, _)
SpacesAt(s, p) ==
    IF p <= Len(s) /\ IsSpace(s[p]) THEN 1 + SpacesAt(s, p + 1) ELSE 0

\* unit\b after n whitespace characters at q: the length with the
\* whitespace, or -1.
UnitAfter(s, q, unit, n) ==
    IF LitAt(s, q + n, unit) /\ WordBoundary(s, q + n + Len(unit) - 1)
    THEN n + Len(unit)
    ELSE -1

\* \s*unit\b at q: its length, or -1.  The unit begins with a letter, so
\* \s* can only succeed having taken every whitespace character there is.
UnitAt(s, q, unit) == UnitAfter(s, q, unit, SpacesAt(s, q))

\* The match of k digits and the unit at p.
DurationMatch(s, p, unit, k) ==
    [len |-> k + UnitAt(s, p + k, unit), g1 |-> SubSeq(s, p, p + k - 1)]

\* The longest of the digit counts ks for which the unit follows.
DurationWith(s, p, unit, ks) ==
    IF ks = {} THEN NoMatch ELSE DurationMatch(s, p, unit, MaxOf(ks))

\* (\d{1,maxDigits})\s*unit\b at p, with \b in front when leading is TRUE.
DurationAt(s, p, maxDigits, unit, leading) ==
    IF ~DigitsAt(s, p, 1) THEN NoMatch
    ELSE IF leading /\ ~WordBoundary(s, p - 1) THEN NoMatch
    ELSE DurationWith(s, p, unit,
                      {k \in 1..maxDigits :
                           DigitsAt(s, p, k) /\ UnitAt(s, p + k, unit) >= 0})

MinUnit == <<"m", "i", "n">>
HourUnit == <<"h">>

\* /(\d{1,3})\s*min\b/i
MinTokenAt(s, p) == DurationAt(s, p, 3, MinUnit, FALSE)
\* /(\d{1,2})\s*h\b/i
HourTokenAt(s, p) == DurationAt(s, p, 2, HourUnit, FALSE)
\* /\b\d{1,3}\s*min\b/gi
MinStripAt(s, p) == DurationAt(s, p, 3, MinUnit, TRUE)
\* /\b\d{1,2}\s*h\b/gi
HourStripAt(s, p) == DurationAt(s, p, 2, HourUnit, TRUE)

\* /\bword\b/i at p
KeywordAt(s, p, word) ==
    IF /\ LitAt(s, p, word)
       /\ WordBoundary(s, p - 1)
       /\ WordBoundary(s, p + Len(word) - 1)
    THEN [len |-> Len(word)]
    ELSE NoMatch

Heute == <<"h","e","u","t","e">>
Morgen == <<"m","o","r","g","e","n">>
Uebermorgen == <<uUmlaut,"b","e","r","m","o","r","g","e","n">>

\* /\b(heute|morgen|übermorgen)\b/gi at p: the alternatives in their order.
DayWordAt(s, p) ==
    IF KeywordAt(s, p, Heute).len >= 0 THEN KeywordAt(s, p, Heute)
    ELSE IF KeywordAt(s, p, Morgen).len >= 0 THEN KeywordAt(s, p, Morgen)
    ELSE KeywordAt(s, p, Uebermorgen)

\* \.(\d{2,4})\b at q with k digits.
YearAt(s, q, k) ==
    /\ q <= Len(s) /\ s[q] = "."
    /\ DigitsAt(s, q + 1, k)
    /\ WordBoundary(s, q + k)

\* The year part with the longest of the digit counts ks, else the empty
\* year part if \b holds at once.
YearWith(s, q, ks) ==
    IF ks # {} THEN [len |-> 1 + MaxOf(ks), g3 |-> SubSeq(s, q + 1, q + MaxOf(ks))]
    ELSE IF WordBoundary(s, q - 1) THEN [len |-> 0, g3 |-> <<>>]
    ELSE NoMatch

\* (?:\.(\d{2,4}))?\b at q: the optional year first, then without it.
YearPartAt(s, q) == YearWith(s, q, {k \in 2..4 : YearAt(s, q, k)})

\* (\d{kd})\.(\d{km}) and the year part at p.
DayMonthAt(s, p, kd, km) ==
    /\ DigitsAt(s, p, kd)
    /\ p + kd <= Len(s) /\ s[p + kd] = "."
    /\ DigitsAt(s, p + kd + 1, km)
    /\ YearPartAt(s, p + kd + 1 + km).len >= 0

\* The match with kd day digits, km month digits and the year part yp.
DateMatch(s, p, kd, km, yp) ==
    [len |-> kd + 1 + km + yp.len,
     g1 |-> SubSeq(s, p, p + kd - 1),
     g2 |-> SubSeq(s, p + kd + 1, p + kd + km),
     g3 |-> yp.g3]

\* The most month digits that match after kd day digits.
DateWithDay(s, p, kd, kms) ==
    DateMatch(s, p, kd, MaxOf(kms), YearPartAt(s, p + kd + 1 + MaxOf(kms)))

\* The most day digits that match, then the most month digits.
DateWith(s, p, choices) ==
    IF choices = {} THEN NoMatch
    ELSE DateWithDay(s, p, MaxOf({c[1] : c \in choices}),
                     {c[2] : c \in {x \in choices :
                                       x[1] = MaxOf({y[1] : y \in choices})}})

\* /\b(\d{1,2})\.(\d{1,2})(?:\.(\d{2,4}))?\b/ at p
DateAt(s, p) ==
    IF ~DigitsAt(s, p, 1) \/ ~WordBoundary(s, p - 1) THEN NoMatch
    ELSE DateWith(s, p, {c \in (1..2) \X (1..2) : DayMonthAt(s, p, c[1], c[2])})

\* The match with the longest of the hour digit counts ks.
TimeWith(s, p, ks) ==
    IF ks = {} THEN NoMatch
    ELSE [len |-> MaxOf(ks) + 3,
          g1 |-> SubSeq(s, p, p + MaxOf(ks) - 1),
          g2 |-> SubSeq(s, p + MaxOf(ks) + 1, p + MaxOf(ks) + 2)]

\* (\d{k})[:.](\d{2})\b at p
HourMinuteAt(s, p, k) ==
    /\ DigitsAt(s, p, k)
    /\ p + k <= Len(s) /\ s[p + k] \in {":", "."}
    /\ DigitsAt(s, p + k + 1, 2)
    /\ WordBoundary(s, p + k + 2)

\* /\b(\d{1,2})[:.](\d{2})\b/ at p
TimeAt(s, p) ==
    IF ~DigitsAt(s, p, 1) \/ ~WordBoundary(s, p - 1) THEN NoMatch
    ELSE TimeWith(s, p, {k \in 1..2 : HourMinuteAt(s, p, k)})

\* The largest of ks, or 0.
MaxOrZero(ks) == IF ks = {} THEN 0 ELSE MaxOf(ks)

\* \d{1,2}(?:\s|$) at q: the digits taken, or 0.
HourTailDigits(s, q) ==
    MaxOrZero({k \in 1..2 :
                   /\ DigitsAt(s, q, k)
                   /\ \/ (q + k <= Len(s) /\ IsSpace(s[q + k]))
                      \/ q + k = Len(s) + 1})

\* (?:^|\s) at p in front of the digits: 0 characters for ^, 1 for \s, -1
\* for no match; ^ is tried first.
HourLead(s, p) ==
    IF p = 1 /\ HourTailDigits(s, p) > 0 THEN 0
    ELSE IF p <= Len(s) /\ IsSpace(s[p]) /\ HourTailDigits(s, p + 1) > 0 THEN 1
    ELSE -1

\* The match with lead characters in front of k digits; a whitespace
\* character behind them is consumed, the end of the string is not.
HourOnlyMatch(s, p, lead, k) ==
    [len |-> lead + k + (IF p + lead + k <= Len(s) THEN 1 ELSE 0),
     g1 |-> SubSeq(s, p + lead, p + lead + k - 1)]

HourOnlyWith(s, p, lead) ==
    IF lead < 0 THEN NoMatch
    ELSE HourOnlyMatch(s, p, lead, HourTailDigits(s, p + lead))

\* /(?:^|\s)(\d{1,2})(?:\s|$)/ at p
HourOnlyAt(s, p) == HourOnlyWith(s, p, HourLead(s, p))

\* /\bübermorgen\b/i, /\bmorgen\b/i, /\bheute\b/i
UebermorgenAt(s, p) == KeywordAt(s, p, Uebermorgen)
MorgenAt(s, p) == KeywordAt(s, p, Morgen)
HeuteAt(s, p) == KeywordAt(s, p, Heute)

\* The regular expressions of parseQuickText, by name.
At(re, s, p) ==
    CASE re = "durMin" -> MinTokenAt(s, p)
      [] re = "durH" -> HourTokenAt(s, p)
      [] re = "uebermorgen" -> UebermorgenAt(s, p)
      [] re = "morgen" -> MorgenAt(s, p)
      [] re = "heute" -> HeuteAt(s, p)
      [] re = "date" -> DateAt(s, p)
      [] re = "time" -> TimeAt(s, p)
      [] re = "hourOnly" -> HourOnlyAt(s, p)
      [] re = "dayWord" -> DayWordAt(s, p)
      [] re = "minStrip" -> MinStripAt(s, p)
      [] re = "hourStrip" -> HourStripAt(s, p)

\* The leftmost match from position p on, with its index, or NoMatch.
RECURSIVE MatchFrom(_, _, _)
MatchOr(s, re, p, m) ==
    IF m.len >= 0 THEN [index |-> p] @@ m ELSE MatchFrom(s, re, p + 1)

MatchFrom(s, re, p) ==
    IF p > Len(s) THEN NoMatch ELSE MatchOr(s, re, p, At(re, s, p))

\* String.prototype.match without the g flag: the leftmost match, with its
\* index, or NoMatch.
Match(s, re) == MatchFrom(s, re, 1)

\* RegExp.prototype.test
Test(s, re) == Match(s, re).len >= 0

\* The characters from position i on that no match of re covers, the
\* matches being found left to right; n is the length of the match at i.
RECURSIVE ReplaceFrom(_, _, _)
ReplaceNext(s, re, i, n) ==
    IF n > 0 THEN ReplaceFrom(s, re, i + n)
    ELSE <<s[i]>> \o ReplaceFrom(s, re, i + 1)

ReplaceFrom(s, re, i) ==
    IF i > Len(s) THEN <<>> ELSE ReplaceNext(s, re, i, At(re, s, i).len)

\* String.prototype.replace with a g-flag pattern and the empty replacement.
ReplaceAll(s, re) == ReplaceFrom(s, re, 1)

\* The string with the match m replaced.
Splice(s, m, by) ==
    IF m.len < 0 THEN s
    ELSE SubSeq(s, 1, m.index - 1) \o by \o SubSeq(s, m.index + m.len, Len(s))

\* String.prototype.replace with a pattern without the g flag: the first
\* match only.
ReplaceFirst(s, re, by) == Splice(s, Match(s, re), by)

\* replace(/\s+/g, " ")
RECURSIVE CollapseSpaces(_)
CollapseSpaces(s) ==
    IF s = <<>> THEN <<>>
    ELSE IF IsSpace(s[1])
         THEN <<" ">> \o CollapseSpaces(trimStart(s))
         ELSE <<s[1]>> \o CollapseSpaces(Tail(s))

(***************************************************************************)
(* Date.  ECMAScript's day and time arithmetic on a time value in minutes. *)
(***************************************************************************)
Day(t) == t \div (24 * 60)
TimeWithinDay(t) == t % (24 * 60)
MakeDate(day, time) == day * (24 * 60) + time

\* Day number of day d of the year that begins in March, of shifted month
\* mp (0 is March) in year yoe of the era.
DaysFromEra(era, yoe, mp, d) ==
    era * 146097
    + yoe * 365 + yoe \div 4 - yoe \div 100 + (153 * mp + 2) \div 5 + d - 1
    - 719468

DaysFromShifted(yy, mp, d) ==
    DaysFromEra(yy \div 400, yy - (yy \div 400) * 400, mp, d)

\* Day number of the civil date y-m-d (m in 1..12), proleptic Gregorian.
DaysFromCivil(y, m, d) ==
    DaysFromShifted(IF m <= 2 THEN y - 1 ELSE y,
                    IF m > 2 THEN m - 3 ELSE m + 9, d)

\* The civil date of month m (1-based) in the year that began in March of y.
CivilOf(y, m, d) ==
    [year |-> IF m <= 2 THEN y + 1 ELSE y, month |-> m - 1, date |-> d]

CivilFromMp(y, doy, mp) ==
    CivilOf(y, IF mp < 10 THEN mp + 3 ELSE mp - 9,
            doy - (153 * mp + 2) \div 5 + 1)

CivilFromDoy(y, doy) == CivilFromMp(y, doy, (5 * doy + 2) \div 153)

CivilFromYoe(era, doe, yoe) ==
    CivilFromDoy(yoe + era * 400,
                 doe - (365 * yoe + yoe \div 4 - yoe \div 100))

CivilFromDoe(era, doe) ==
    CivilFromYoe(era, doe,
                 (doe - doe \div 1460 + doe \div 36524 - doe \div 146096)
                 \div 365)

CivilFromShifted(zz) ==
    CivilFromDoe(zz \div 146097, zz - (zz \div 146097) * 146097)

\* YearFromTime, MonthFromTime (0-based) and DateFromTime of a day number.
CivilFromDays(z) == CivilFromShifted(z + 719468)

\* MakeDay: the month (0-based) may lie outside 0..11 and the date outside
\* the month; both carry over.
MakeDay(year, month, date) ==
    DaysFromCivil(year + (month \div 12), (month % 12) + 1, 1) + date - 1

getFullYear(t) == CivilFromDays(Day(t)).year
getMonth(t) == CivilFromDays(Day(t)).month
getDate(t) == CivilFromDays(Day(t)).date
getHours(t) == TimeWithinDay(t) \div 60
getMinutes(t) == TimeWithinDay(t) % 60

\* d.setDate(date)
setDate(t, date) ==
    MakeDate(MakeDay(getFullYear(t), getMonth(t), date), TimeWithinDay(t))
\* d.setHours(hh, min, 0, 0)
setHours(t, hh, min) == MakeDate(Day(t), hh * 60 + min)
\* d.setMinutes(min)
setMinutes(t, min) == MakeDate(Day(t), getHours(t) * 60 + min)
\* new Date(year, month, date, hours, minutes, 0, 0); a year in 0..99 means
\* 1900 + year.
NewDate(year, month, date, hours, minutes) ==
    MakeDate(MakeDay(IF year >= 0 /\ year <= 99 THEN 1900 + year ELSE year,
                     month, date),
             hours * 60 + minutes)

\* formatLocalDateTime: the fields of YYYY-MM-DDTHH:MM:SS (seconds are 0).
formatLocalDateTime(t) ==
    <<getFullYear(t), getMonth(t) + 1, getDate(t), getHours(t), getMinutes(t), 0>>

(***************************************************************************)
(* parseQuickText                                                          *)
(***************************************************************************)
\* clampInt on the finite integers parseInt yields here.
clampInt(n, a, b) ==
    IF n > b THEN (IF a > b THEN a ELSE b) ELSE (IF a > n THEN a ELSE n)

durMinMatch(raw) == Match(raw, "durMin")
durHMatch(raw) == Match(raw, "durH")
dm(raw) == Match(raw, "date")
timeMatch(raw) == Match(raw, "time")
hourOnlyMatch(raw) == Match(raw, "hourOnly")

\* let minutes = ...; the two ifs run in this order, so an hour token
\* overwrites what a minute token set.
DurationOf(minM, hM, defMin) ==
    IF hM.len >= 0 THEN clampInt(parseInt(hM.g1) * 60, 5, 12 * 60)
    ELSE IF minM.len >= 0 THEN clampInt(parseInt(minM.g1), 5, 12 * 60)
    ELSE IF defMin > 0 THEN defMin
    ELSE 60

Duration(raw, defMin) == DurationOf(durMinMatch(raw), durHMatch(raw), defMin)

\* if (yyyy < 100) yyyy += 2000
FullYear(yyyy) == IF yyyy < 100 THEN yyyy + 2000 ELSE yyyy

\* The day of the match d of dd.mm(.yyyy), at the clock's hours and minutes;
\* the clock's day if there is no match.
ExplicitDay(d, clk) ==
    IF d.len >= 0
    THEN NewDate(FullYear(IF d.g3 # <<>> THEN parseInt(d.g3)
                          ELSE getFullYear(clk)),
                 parseInt(d.g2) - 1, parseInt(d.g1),
                 getHours(clk), getMinutes(clk))
    ELSE clk

\* The day: heute / morgen / übermorgen, else dd.mm(.yyyy), else today.
ResolveDay(raw, clk) ==
    IF Test(toLowerCase(raw), "uebermorgen") THEN setDate(clk, getDate(clk) + 2)
    ELSE IF Test(toLowerCase(raw), "morgen") THEN setDate(clk, getDate(clk) + 1)
    ELSE IF Test(toLowerCase(raw), "heute") THEN clk
    ELSE ExplicitDay(dm(raw), clk)

\* let hh = 9, min = 0, unless HH:MM or HH.MM matched, else a lone 1-2 digit
\* number.
TimeOf(tM, hM) ==
    IF tM.len >= 0
    THEN [hh |-> clampInt(parseInt(tM.g1), 0, 23),
          min |-> clampInt(parseInt(tM.g2), 0, 59)]
    ELSE IF hM.len >= 0
    THEN [hh |-> clampInt(parseInt(hM.g1), 0, 23), min |-> 0]
    ELSE [hh |-> 9, min |-> 0]

ResolveTime(raw) == TimeOf(timeMatch(raw), hourOnlyMatch(raw))

Termin == <<"T","e","r","m","i","n">>

\* if (!title) title = "Termin"
TitleOr(title) == IF title = <<>> THEN Termin ELSE title

\* The title: the input with the token patterns removed one after another,
\* each removal followed by trim.
Title(raw) ==
    TitleOr(CollapseSpaces(trim(ReplaceFirst(
        trim(ReplaceAll(
            trim(ReplaceAll(
                trim(ReplaceAll(
                    trim(ReplaceAll(
                        trim(ReplaceAll(raw, "dayWord")),
                        "date")),
                    "time")),
                "minStrip")),
            "hourStrip")),
        "hourOnly", <<" ">>))))

\* const start = new Date(day); start.setHours(hh, min, 0, 0)
StartOf(day, tod) == setHours(day, tod.hh, tod.min)

\* The minutes field set to the duration instead of advanced by it.
EndOfSetOnly(start, minutes) == setMinutes(start, minutes)

\* const end = new Date(start); end.setMinutes(end.getMinutes() + minutes)
EndOf(start, minutes) == setMinutes(start, getMinutes(start) + minutes)

\* if (!raw) return { ok: false, ... }
IsEmptyText(raw) == raw = <<>>

\* return { ok: true, title, start, end, minutes }
ParseResult(title, start, minutes) ==
    [ok |-> TRUE,
     title |-> title,
     start |-> start,
     end |-> EndOf(start, minutes),
     minutes |-> minutes]

ParseRaw(raw, defMin, clk) ==
    IF IsEmptyText(raw)
    THEN [ok |-> FALSE, message |-> "text fehlt"]
    ELSE ParseResult(Title(raw),
                     StartOf(ResolveDay(raw, clk), ResolveTime(raw)),
                     Duration(raw, defMin))

parseQuickText(input, defMin, clk) == ParseRaw(trim(input), defMin, clk)

(***************************************************************************)
(* Inputs of the parser                                                    *)
(***************************************************************************)
MaxWords == 3
MaxTicks == 2

Vocabulary ==
    { <<>>,
      <<"x">>,
      <<"m","o","r","g","e","n">>,
      <<uUmlaut,"b","e","r","m","o","r","g","e","n">>,
      <<"1","3">>,
      <<"m","i","n">>,
      <<"9","0","m","i","n">>,
      <<"2","h">>,
      <<"2","4",".","0","1">>,
      <<"0","9",":","1","5">> }

RECURSIVE Join(_)
Join(ws) ==
    IF ws = <<>> THEN <<>>
    ELSE IF Len(ws) = 1 THEN ws[1]
    ELSE ws[1] \o <<" ">> \o Join(Tail(ws))

\* The texts of up to n words of the vocabulary, separated by one space; the
\* empty word gives leading, trailing and repeated whitespace.
WordTexts(n) == {Join(ws) : ws \in UNION {[1..k -> Vocabulary] : k \in 0..n}}

ExTermin == <<"t","e","r","m","i","n"," ","9","0","m","i","n"," ","2","h">>
ExUebermorgen == <<uUmlaut,"b","e","r","m","o","r","g","e","n"," ","1","3",":","0","0">>
ExArzt == <<"a","r","z","t"," ","2","4",".","0","1"," ","0","9",":","1","5"," ","3","0","m","i","n">>
ExCoiffeur == <<"c","o","i","f","f","e","u","r"," ","m","o","r","g","e","n"," ","1","3"," ","6","0","m","i","n">>
ExAllTokens == <<"9","0","m","i","n"," ","1","3",":","0","0"," ","m","o","r","g","e","n">>
ExClamp == <<"x"," ","9","9",":","9","9"," ","9","9","9","m","i","n">>
ExLeak == <<"a","5","m","i","n">>
ExSpaced == <<"x"," ","3","0"," ","m","i","n">>
ExYear == <<"M","o","r","g","e","n","s"," ","3","1",".","1","2",".","2","7">>

ExHeuteMorgen == <<"h","e","u","t","e"," ","m","o","r","g","e","n">>
ExHeuteDate == <<"x"," ","H","e","u","t","e"," ","2","4",".","0","1">>

Examples == {ExTermin, ExUebermorgen, ExArzt, ExCoiffeur, ExAllTokens, ExClamp,
             ExLeak, ExSpaced, ExYear, ExHeuteMorgen, ExHeuteDate}

Texts == WordTexts(MaxWords) \cup Examples

Defaults == {0, 3, 60, 1000}

\* 2026-01-01T10:30 and 2026-12-31T23:30 local time
Clocks == {MakeDate(DaysFromCivil(2026, 1, 1), 10 * 60 + 30),
           MakeDate(DaysFromCivil(2026, 12, 31), 23 * 60 + 30)}
TickMinutes == 12 * 60

ServerIdle ==
    /\ db = [events |-> <<>>, tasks |-> <<>>]
    /\ pc = <<>>
    /\ req = <<>>
    /\ resp = <<>>

Init ==
    /\ text \in Texts
    /\ defaultMinutes \in Defaults
    /\ clock \in Clocks
    /\ now = 0
    /\ result = None
    /\ ticks = 0
    /\ ServerIdle

\* A call parseQuickText(text, defaultMinutes); new Date() reads the clock.
Call ==
    /\ now' = clock
    /\ result' = parseQuickText(text, defaultMinutes, clock)
    /\ UNCHANGED <<text, defaultMinutes, clock, ticks, serverVars>>

\* The first call on the input.
Parse == result = None /\ Call

Next == Parse

\* One call of the parser on every input.
Spec == Init /\ [][Next]_vars

\* Time passes between calls.
Tick ==
    /\ ticks < MaxTicks
    /\ clock' = clock + TickMinutes
    /\ ticks' = ticks + 1
    /\ UNCHANGED <<parserVars, serverVars>>

InitRetry ==
    /\ text \in WordTexts(1) \cup Examples
    /\ defaultMinutes \in Defaults
    /\ clock \in Clocks
    /\ now = 0
    /\ result = None
    /\ ticks = 0
    /\ ServerIdle

\* The same call again.
Retry == result # None /\ Call

NextRetry == Parse \/ Retry \/ Tick

\* Repeated calls of the parser on one input while the clock advances.
SpecRetry == InitRetry /\ [][NextRetry]_vars

(***************************************************************************)
(* The event-creating request handlers.  A handler runs without            *)
(* interruption except at its await on createGoogleEvent.                  *)
(***************************************************************************)
MaxRequests == 3

\* Requests are numbered in their order of arrival.
Requests == 1..MaxRequests

\* A start or end timestamp of a request body, as formatLocalDateTime's fields.
BodyStart == <<2026, 1, 16, 13, 0, 0>>
BodyEnd == <<2026, 1, 16, 14, 0, 0>>

\* Request bodies: the title may be missing (empty); a quick-add body
\* carries a text.
EventBodies ==
    [title : {<<>>, <<"x">>}, start : {BodyStart}, end : {BodyEnd},
     text : {<<>>}]
QuickAddBodies ==
    [title : {<<>>}, start : {<<>>}, end : {<<>>},
     text : {<<>>, ExCoiffeur}]

BodiesOf(route) == IF route = "quickAdd" THEN QuickAddBodies ELSE EventBodies

\* requireApiKey with API_KEY set: the request's key must equal it.
requireApiKey(key) == key = "good"

\* if (!title || !start || !end)
FieldsMissing(ev) == ev.title = <<>> \/ ev.start = <<>> \/ ev.end = <<>>

\* The list replaced by the new event instead of extended by it.
pushOverwrite(events, ev) == <<ev>>

\* db.events.push(ev)
push(events, ev) == Append(events, ev)

\* const db = readDb(); db.events.push(ev); writeDb(db)
mirror(file, ev) == [file EXCEPT !.events = push(@, ev)]

Response(status, ok) == [status |-> status, ok |-> ok]

Arrives(r) ==
    /\ pc[r] = "idle"
    /\ IF r = 1 THEN TRUE ELSE pc[r - 1] # "idle"

Finish(r, response) ==
    /\ pc' = [pc EXCEPT ![r] = "done"]
    /\ resp' = [resp EXCEPT ![r] = response]

\* POST /api/events: synchronous.
PostEvents(r) ==
    /\ Arrives(r)
    /\ \E key \in {"good", "bad"}, body \in BodiesOf("events") :
        /\ req' = [req EXCEPT ![r] = [route |-> "events", key |-> key, ev |-> body]]
        /\ IF ~requireApiKey(key)
           THEN Finish(r, Response(401, FALSE)) /\ UNCHANGED db
           ELSE IF FieldsMissing(body)
           THEN Finish(r, Response(400, FALSE)) /\ UNCHANGED db
           ELSE /\ db' = mirror(db, [id |-> r, title |-> body.title,
                                     start |-> body.start, end |-> body.end])
                /\ Finish(r, Response(200, TRUE))
    /\ UNCHANGED <<parserVars, clock, ticks>>

\* POST /api/google/events up to its await createGoogleEvent(...).
PostGoogleEvents(r) ==
    /\ Arrives(r)
    /\ \E key \in {"good", "bad"}, body \in BodiesOf("googleEvents") :
        /\ req' = [req EXCEPT ![r] =
                      [route |-> "googleEvents", key |-> key, ev |-> body]]
        /\ IF ~requireApiKey(key)
           THEN Finish(r, Response(401, FALSE))
           ELSE pc' = [pc EXCEPT ![r] = "await"] /\ UNCHANGED resp
    /\ UNCHANGED <<parserVars, clock, ticks, db>>

\* POST /api/google/quick-add up to its await createGoogleEvent(...).
PostQuickAdd(r) ==
    /\ Arrives(r)
    /\ \E key \in {"good", "bad"}, body \in BodiesOf("quickAdd") :
        \E parsed \in {parseQuickText(body.text, 60, clock)} :
            IF ~requireApiKey(key)
            THEN /\ req' = [req EXCEPT ![r] =
                               [route |-> "quickAdd", key |-> key, ev |-> body]]
                 /\ Finish(r, Response(401, FALSE))
            ELSE IF ~parsed.ok
            THEN /\ req' = [req EXCEPT ![r] =
                               [route |-> "quickAdd", key |-> key, ev |-> body]]
                 /\ Finish(r, Response(400, FALSE))
            ELSE /\ req' = [req EXCEPT ![r] =
                               [route |-> "quickAdd", key |-> key,
                                ev |-> [title |-> parsed.title,
                                        start |-> formatLocalDateTime(parsed.start),
                                        end |-> formatLocalDateTime(parsed.end),
                                        text |-> body.text]]]
                 /\ pc' = [pc EXCEPT ![r] = "await"]
                 /\ UNCHANGED resp
    /\ UNCHANGED <<parserVars, clock, ticks, db>>

\* createGoogleEvent settles and the handler runs to its end: out.ok is
\* false when title, start or end is missing; otherwise the calendar insert
\* (or getAuthedClient before it) throws, or the insert returns.
InsertSettles(r) ==
    /\ pc[r] = "await"
    /\ IF FieldsMissing(req[r].ev)
       THEN Finish(r, Response(400, FALSE)) /\ UNCHANGED db
       ELSE \E inserted \in BOOLEAN :
                IF ~inserted
                THEN Finish(r, Response(500, FALSE)) /\ UNCHANGED db
                ELSE /\ db' = mirror(db, [id |-> r, title |-> req[r].ev.title,
                                          start |-> req[r].ev.start,
                                          end |-> req[r].ev.end])
                     /\ Finish(r, Response(200, TRUE))
    /\ UNCHANGED <<parserVars, clock, ticks, req>>

InitServer ==
    /\ text = <<>>
    /\ defaultMinutes = 0
    /\ clock \in Clocks
    /\ now = 0
    /\ result = None
    /\ ticks = 0
    /\ db = [events |-> <<>>, tasks |-> <<>>]
    /\ pc = [r \in Requests |-> "idle"]
    /\ req = [r \in Requests |-> None]
    /\ resp = [r \in Requests |-> None]

NextServer ==
    \E r \in Requests :
        PostEvents(r) \/ PostGoogleEvents(r) \/ PostQuickAdd(r) \/ InsertSettles(r)

SpecServer == InitServer /\ [][NextServer]_vars

(***************************************************************************)
(* Properties of the parser                                                *)
(***************************************************************************)
Parsed == result # None /\ result.ok
Raw == trim(text)
TimeOfDay(t) == TimeWithinDay(t)

\* sub occurs in t as a contiguous substring.
Contains(t, sub) ==
    \E i \in 1..(Len(t) - Len(sub) + 1) : SubSeq(t, i, i + Len(sub) - 1) = sub

\* The substring of s a match covers.
Matched(s, m) == SubSeq(s, m.index, m.index + m.len - 1)

\* C1: parseQuickText fails if and only if the text is empty after trimming
\* (it consists of whitespace only); every other text, with every default,
\* gives a successful result with title, start, end and duration.
C1_FailsIffEmpty ==
    result # None =>
        /\ (~result.ok) <=> (\A i \in 1..Len(text) : text[i] = " ")
        /\ result.ok => DOMAIN result = {"ok", "title", "start", "end", "minutes"}

\* A text of whitespace only has been rejected.
C1_Witness == result # None /\ ~result.ok /\ Len(text) >= 2

\* C2: the duration of every successful parse lies in [5, 720], whatever its
\* source (minute token, hour token or the caller's default).
C2_DurationInRange ==
    Parsed => (result.minutes >= 5 /\ result.minutes <= 720)

\* C3: with both a minute token and an hour token in the text, the duration
\* is the one of the minute token.
C3_MinuteTokenWins ==
    (Parsed /\ durMinMatch(Raw).len >= 0 /\ durHMatch(Raw).len >= 0) =>
        result.minutes = clampInt(parseInt(durMinMatch(Raw).g1), 5, 720)

\* w stands in s as a word: between whitespace or the ends of the text.
HasWord(s, w) ==
    \E p \in 1..Len(s) :
        /\ LitAt(s, p, w)
        /\ (p = 1 \/ s[p - 1] = " ")
        /\ (p + Len(w) - 1 = Len(s) \/ s[p + Len(w)] = " ")

\* C4: the day follows the priority übermorgen > morgen > heute > numeric
\* date > reference day; a day keyword standing as a word decides the day,
\* also next to a numeric date, and without any day token the day is the
\* reference day.
C4_DayPriority ==
    Parsed =>
        IF HasWord(Raw, Uebermorgen) THEN Day(result.start) = Day(now) + 2
        ELSE IF HasWord(Raw, Morgen) THEN Day(result.start) = Day(now) + 1
        ELSE IF HasWord(Raw, Heute) THEN Day(result.start) = Day(now)
        ELSE dm(Raw).len < 0 => Day(result.start) = Day(now)

\* An HH:MM token (with a colon) at p.
ColonTimeAt(s, p) ==
    LET m == TimeAt(s, p)
    IN  IF m.len >= 0 /\ s[p + Len(m.g1)] = ":" THEN m ELSE NoMatch

\* C5: with a D.M date token (and no day keyword) and a separate HH:MM token,
\* the start is day D of month M of the reference year at the time of the
\* HH:MM token.
C5_DateAndTime ==
    LET d == dm(Raw)
        ps == {p \in 1..Len(Raw) : ColonTimeAt(Raw, p).len >= 0}
        t == IF ps = {} THEN NoMatch ELSE ColonTimeAt(Raw, MinOf(ps))
    IN  (/\ Parsed
         /\ ~HasWord(Raw, Uebermorgen) /\ ~HasWord(Raw, Morgen) /\ ~HasWord(Raw, Heute)
         /\ d.len >= 0 /\ d.g3 = <<>>
         /\ t.len >= 0) =>
            /\ Day(result.start) =
                   MakeDay(getFullYear(now), parseInt(d.g2) - 1, parseInt(d.g1))
            /\ TimeOfDay(result.start) =
                   clampInt(parseInt(t.g1), 0, 23) * 60 + clampInt(parseInt(t.g2), 0, 59)

\* The 1-2 digit integers of s between whitespace or the ends of the text,
\* as <<position, length>>.
BareIntegers(s) ==
    {b \in (1..Len(s)) \X (1..2) :
        /\ DigitsAt(s, b[1], b[2])
        /\ (b[1] = 1 \/ s[b[1] - 1] = " ")
        /\ (b[1] + b[2] = Len(s) + 1 \/ s[b[1] + b[2]] = " ")}

\* The match m at q covers the integer b.
Covers(m, q, b) == m.len >= 0 /\ q <= b[1] /\ b[1] + b[2] <= q + m.len

\* The bare integers that belong to no duration token and no date token.
FreeIntegers(s) ==
    {b \in BareIntegers(s) :
        ~\E q \in 1..Len(s) :
            \/ Covers(MinTokenAt(s, q), q, b)
            \/ Covers(HourTokenAt(s, q), q, b)
            \/ Covers(DateAt(s, q), q, b)}

\* C6: without an HH:MM / HH.MM token the hour is a bare integer that is
\* part of no duration or date token (minute 0), and 09:00 when there is none.
C6_BareHour ==
    (Parsed /\ timeMatch(Raw).len < 0) =>
        IF FreeIntegers(Raw) = {} THEN TimeOfDay(result.start) = 9 * 60
        ELSE \E b \in FreeIntegers(Raw) :
                 TimeOfDay(result.start) =
                     clampInt(parseInt(SubSeq(Raw, b[1], b[1] + b[2] - 1)), 0, 23) * 60

\* The substrings the extraction passes matched: the duration tokens, the day
\* keyword or date that decided the day, and the time or bare hour.
MatchedTokens(s) ==
    LET lower == toLowerCase(s)
        one(m) == IF m.len >= 0 THEN {Matched(s, m)} ELSE {}
        dayTok == IF Test(lower, "uebermorgen") THEN one(Match(lower, "uebermorgen"))
                  ELSE IF Test(lower, "morgen") THEN one(Match(lower, "morgen"))
                  ELSE IF Test(lower, "heute") THEN one(Match(lower, "heute"))
                  ELSE one(dm(s))
        timeTok == IF timeMatch(s).len >= 0 THEN one(timeMatch(s))
                   ELSE IF hourOnlyMatch(s).len >= 0 THEN {hourOnlyMatch(s).g1}
                   ELSE {}
    IN  one(durMinMatch(s)) \cup one(durHMatch(s)) \cup dayTok \cup timeTok

\* C7: the title of a successful parse is non-empty and contains none of the
\* substrings matched as duration, day/date or time tokens; a text made only
\* of tokens gives the title "Termin".
C7_TitleHasNoTokens ==
    Parsed =>
        /\ result.title # <<>>
        /\ \A sub \in MatchedTokens(Raw) : ~Contains(result.title, sub)
        /\ text = ExAllTokens => result.title = Termin

\* C8: two parses of the same text and default give the same result, however
\* much time passes between them.
C8_SameResultOnRetry ==
    [][(/\ result # None /\ result' # None
        /\ text' = text /\ defaultMinutes' = defaultMinutes) => result' = result]_vars

Mirrored(r) == Cardinality({i \in 1..Len(db.events) : db.events[i].id = r})

\* C10: under every interleaving of the three event-creating handlers, a
\* request answered ok:true has exactly one event in the store, and it stays
\* there; every other request (missing fields, insert failed or not ok, or
\* still waiting) has none.
C10_NoLostUpdate ==
    \A r \in Requests :
        Mirrored(r) = IF pc[r] = "done" /\ resp[r].ok THEN 1 ELSE 0

\* All handlers have finished; the first request, a calendar request, was
\* overtaken by the second while it waited, both were answered ok:true, and
\* a third request's insert failed.
C10_Witness ==
    /\ \A r \in Requests : pc[r] = "done"
    /\ req[1].route # "events"
    /\ resp[1].ok /\ resp[2].ok
    /\ db.events[1].id = 2
    /\ \E r \in Requests : resp[r].status = 500

====
